---- MODULE Spec2Model ----
(***************************************************************************)
(* Verification model of the response-extraction and scoring engine of     *)
(* webapp/backend/services/pipeline_service.py (PipelineService).          *)
(*                                                                         *)
(* A model text is a sequence of lexical tokens.  Whitespace and the       *)
(* commas between the members of an object are not represented; every      *)
(* other distinction the extractor makes (fences, braces, which parser     *)
(* accepts which member) is.  The tokens are                               *)
(*   "{"  "}"   the brace characters                                       *)
(*   "F"        the fence opener  ```json                                  *)
(*   "E"        the bare fence    ```                                      *)
(*   "a"        the four members "feature_changes": 1, "reasoning": 1,     *)
(*              "features_importance_ranking": 1, "explanation": 1         *)
(*   "b"        the member  "feature_changes": 1                           *)
(*   "q"        the member  'feature_changes': 2   (single-quoted)         *)
(*   "o"        the member  "note": 1                                      *)
(*   "t"        the member  "note": null                                   *)
(*   "n"        the key     "detail":   whose value is the object after it *)
(*   "w"        the bare number literal 7                                  *)
(*   "x"        the four members of "a", the ranking being                 *)
(*              {"age": "1", "income": "2"}                                *)
(*   "y"        the four members of "a", the ranking being                 *)
(*              {"age": "2", "income": "1"}                                *)
(*   "s"        the member  'tags': {7}   (a set, only a Python literal)    *)
(* Positions are 1-based (the source's are 0-based); 0 stands for None     *)
(* where the source holds an optional index.                               *)
(***************************************************************************)
EXTENDS Integers, Sequences, FiniteSets, TLC

VARIABLES pc, text, extracted,
          parsed_json, ground_truth_changes, ground_truth_target, metrics,
          factual, counterfactual, changes,
          dict1, dict2, equal,
          request, VLLM_AVAILABLE, calls, response, events,
          drafts, nss, nss_computed, llm

equalVars == <<dict1, dict2, equal>>

serveVars == <<request, VLLM_AVAILABLE, calls, response, events,
               drafts, nss, nss_computed, llm>>

vars == <<pc, text, extracted,
          parsed_json, ground_truth_changes, ground_truth_target, metrics,
          factual, counterfactual, changes, equalVars, serveVars>>

(***************************************************************************)
(* Bounds of the checked input space.                                      *)
(***************************************************************************)
MaxSegs == 3

MaxItems == 2

MaxTargetKeys == 2

(***************************************************************************)
(* Python values.  A dict is a function from its keys; the outcome of a    *)
(* call is a record whose kind tells a dict from None, from a value of     *)
(* another type and from a raised exception.                               *)
(***************************************************************************)
EmptyDict == [k \in {} |-> ""]

None == [kind |-> "none", val |-> EmptyDict]

Raised == [kind |-> "raise", val |-> EmptyDict]

NotADict == [kind |-> "other", val |-> EmptyDict]

DictValue(d) == [kind |-> "dict", val |-> d]

Min(S) == CHOOSE x \in S : \A y \in S : x <= y

\* dict.update / a later duplicate key of a literal overrides an earlier one
Merge(d1, d2) ==
  [k \in (DOMAIN d1) \cup (DOMAIN d2) |-> IF k \in DOMAIN d2 THEN d2[k] ELSE d1[k]]

(***************************************************************************)
(* The two parsers of _try_load_json_snippet, on token sequences.          *)
(***************************************************************************)
MemberEntries(c) ==
  CASE c = "a" -> [k \in {"feature_changes", "reasoning",
                          "features_importance_ranking", "explanation"} |-> "1"]
    [] c = "b" -> [k \in {"feature_changes"} |-> "1"]
    [] c = "q" -> [k \in {"feature_changes"} |-> "2"]
    [] c = "o" -> [k \in {"note"} |-> "1"]
    [] c = "t" -> [k \in {"note"} |-> "None"]
    [] c = "x" -> [k \in {"feature_changes", "reasoning",
                          "features_importance_ranking", "explanation"} |->
                     IF k = "features_importance_ranking" THEN "age:1,income:2"
                     ELSE "1"]
    [] c = "y" -> [k \in {"feature_changes", "reasoning",
                          "features_importance_ranking", "explanation"} |->
                     IF k = "features_importance_ranking" THEN "age:2,income:1"
                     ELSE "1"]
    [] c = "s" -> [k \in {"tags"} |-> "{7}"]

\* members each parser accepts: json.loads rejects single quotes,
\* ast.literal_eval rejects the name null
AcceptedMembers(dialect) ==
  IF dialect = "json" THEN {"a", "b", "o", "t", "x", "y"}
  ELSE {"a", "b", "o", "q", "x", "y", "s"}

ParseFail == [ok |-> FALSE, val |-> EmptyDict, next |-> 0]

\* the members of one object from position i up to its closing brace
RECURSIVE ParseMembers(_, _, _, _)
ParseMembers(s, i, dialect, acc) ==
  IF i > Len(s) THEN ParseFail
  ELSE IF s[i] = "}" THEN [ok |-> TRUE, val |-> acc, next |-> i + 1]
  ELSE IF s[i] \in AcceptedMembers(dialect)
       THEN ParseMembers(s, i + 1, dialect, Merge(acc, MemberEntries(s[i])))
  ELSE IF s[i] = "n" /\ i + 1 <= Len(s) /\ s[i + 1] = "{"
       THEN LET inner == ParseMembers(s, i + 2, dialect, EmptyDict)
            IN  IF inner.ok
                THEN ParseMembers(s, inner.next, dialect,
                                  Merge(acc, [k \in {"detail"} |-> inner.val]))
                ELSE ParseFail
  ELSE ParseFail

\* a set display {7, 7, ...}: a Python literal that is not a dict
IsSetDisplay(s) ==
  /\ Len(s) >= 3
  /\ s[1] = "{"
  /\ s[Len(s)] = "}"
  /\ \A i \in 2..(Len(s) - 1) : s[i] = "w"

\* json.loads(snippet): one object spanning the whole snippet, or an exception
json_loads(s) ==
  IF Len(s) >= 2 /\ s[1] = "{"
  THEN LET r == ParseMembers(s, 2, "json", EmptyDict)
       IN  IF r.ok /\ r.next = Len(s) + 1 THEN DictValue(r.val) ELSE Raised
  ELSE Raised

\* ast.literal_eval(snippet): a dict, a set, or an exception
literal_eval(s) ==
  IF IsSetDisplay(s) THEN NotADict
  ELSE IF Len(s) >= 2 /\ s[1] = "{"
  THEN LET r == ParseMembers(s, 2, "python", EmptyDict)
       IN  IF r.ok /\ r.next = Len(s) + 1 THEN DictValue(r.val) ELSE Raised
  ELSE Raised

\* the same function with the second except clause missing
try_load_uncaught(snippet) ==
  LET j == json_loads(snippet)
  IN  IF j.kind = "dict" THEN j
      ELSE LET p == literal_eval(snippet)
           IN  IF p.kind = "dict" THEN p
               ELSE IF p.kind = "raise" THEN Raised
               ELSE None

_try_load_json_snippet(snippet) ==
  LET j == json_loads(snippet)
  IN  IF j.kind = "dict" THEN j
      ELSE LET p == literal_eval(snippet)
           IN  IF p.kind = "dict" THEN p ELSE None

(***************************************************************************)
(* Candidate collection of _parse_json_response.  A candidate is kept as   *)
(* the span [start, end] of the text it was cut from.                      *)
(***************************************************************************)
\* re.findall(r"```json\s*(\{.*?\})\s*```", text, re.DOTALL): leftmost
\* matches, each capture as short as possible, the search resuming after the
\* closing fence.  The closing ``` may be the first three characters of a
\* following ```json.
RECURSIVE FencedFrom(_, _)
FencedFrom(t, i) ==
  IF i > Len(t) THEN <<>>
  ELSE IF t[i] = "F" /\ i + 1 <= Len(t) /\ t[i + 1] = "{"
       THEN LET closers == {j \in (i + 2)..(Len(t) - 1) :
                              t[j] = "}" /\ t[j + 1] \in {"E", "F"}}
            IN  IF closers = {} THEN FencedFrom(t, i + 1)
                ELSE <<[start |-> i + 1, end |-> Min(closers)]>>
                       \o FencedFrom(t, Min(closers) + 2)
  ELSE FencedFrom(t, i + 1)

\* the stack holds only "{" characters, so it is represented by its length
RECURSIVE BraceScan(_, _, _, _)
BraceScan(t, i, depth, start_idx) ==
  IF i > Len(t) THEN <<>>
  ELSE IF t[i] = "{"
       THEN BraceScan(t, i + 1, depth + 1, IF depth = 0 THEN i ELSE start_idx)
  ELSE IF t[i] = "}" /\ depth > 0
       THEN IF depth = 1 /\ start_idx # 0
            THEN <<[start |-> start_idx, end |-> i]>>
                   \o BraceScan(t, i + 1, 0, start_idx)
            ELSE BraceScan(t, i + 1, depth - 1, start_idx)
  ELSE BraceScan(t, i + 1, depth, start_idx)

Candidates(t) == FencedFrom(t, 1) \o BraceScan(t, 1, 0, 0)

Snippet(t, c) == SubSeq(t, c.start, c.end)

required_keys ==
  {"feature_changes", "reasoning", "features_importance_ranking", "explanation"}

\* the test of the priority-1, priority-2 and priority-3 loop
Qualifies(parsed, tier) ==
  /\ parsed.kind = "dict"
  /\ CASE tier = 1 -> required_keys \subseteq DOMAIN parsed.val
       [] tier = 2 -> "feature_changes" \in DOMAIN parsed.val
       [] tier = 3 -> TRUE

NoHit == [kind |-> "nohit", val |-> EmptyDict]

\* for cand in reversed(candidates): the first hit, from index i downwards
RECURSIVE ScanTier(_, _, _, _)
ScanTier(t, cands, i, tier) ==
  IF i = 0 THEN NoHit
  ELSE LET parsed == _try_load_json_snippet(Snippet(t, cands[i]))
       IN  IF parsed.kind = "raise" THEN parsed
           ELSE IF Qualifies(parsed, tier) THEN parsed
           ELSE ScanTier(t, cands, i - 1, tier)

\* the same function with the priority loops in the opposite order
parse_any_dict_first(t) ==
  IF t = <<>> THEN None
  ELSE LET candidates == Candidates(t)
           p1 == ScanTier(t, candidates, Len(candidates), 1)
           p2 == ScanTier(t, candidates, Len(candidates), 2)
           p3 == ScanTier(t, candidates, Len(candidates), 3)
       IN  IF p3 # NoHit THEN p3
           ELSE IF p2 # NoHit THEN p2
           ELSE IF p1 # NoHit THEN p1
           ELSE None

_parse_json_response(t) ==
  IF t = <<>> THEN None
  ELSE LET candidates == Candidates(t)
           p1 == ScanTier(t, candidates, Len(candidates), 1)
           p2 == ScanTier(t, candidates, Len(candidates), 2)
           p3 == ScanTier(t, candidates, Len(candidates), 3)
       IN  IF p1 # NoHit THEN p1
           ELSE IF p2 # NoHit THEN p2
           ELSE IF p3 # NoHit THEN p3
           ELSE None

(***************************************************************************)
(* Python values of the records the Metrics Engine and the Diff Engine     *)
(* read.  A string is the sequence of its characters; a float is           *)
(* v + e * 1e-10; a dict is a function from its keys.                      *)
(***************************************************************************)
PyNone == [t |-> "none", v |-> 0]

PyInt(n) == [t |-> "int", v |-> n]

PyFloat(n, e) == [t |-> "float", v |-> n, e |-> e]

PyStr(chars) == [t |-> "str", v |-> chars]

PyDict(f) == [t |-> "dict", v |-> f]

PyList(items) == [t |-> "list", v |-> items]

\* dict.get(key, default)
Get(d, key, default) == IF key \in DOMAIN d THEN d[key] ELSE default

\* bool(x)
Truthy(x) ==
  CASE x.t = "none" -> FALSE
    [] x.t = "int" -> x.v # 0
    [] x.t = "float" -> x.v # 0 \/ x.e # 0
    [] x.t = "str" -> Len(x.v) > 0
    [] x.t = "list" -> Len(x.v) > 0
    [] x.t = "dict" -> DOMAIN x.v # {}

LowerChar(c) ==
  CASE c = "A" -> "a"
    [] c = "B" -> "b"
    [] c = "E" -> "e"
    [] c = "G" -> "g"
    [] c = "H" -> "h"
    [] c = "I" -> "i"
    [] c = "M" -> "m"
    [] c = "N" -> "n"
    [] c = "O" -> "o"
    [] c = "R" -> "r"
    [] c = "S" -> "s"
    [] c = "T" -> "t"
    [] c = "V" -> "v"
    [] c = "Y" -> "y"
    [] OTHER -> c

\* str.lower()
lower(chars) == [i \in 1..Len(chars) |-> LowerChar(chars[i])]

\* str.strip()
RECURSIVE strip(_)
strip(chars) ==
  IF chars = <<>> THEN chars
  ELSE IF Head(chars) = " " THEN strip(Tail(chars))
  ELSE IF chars[Len(chars)] = " " THEN strip(SubSeq(chars, 1, Len(chars) - 1))
  ELSE chars

DigitChar(d) == <<"0", "1", "2", "3", "4", "5", "6", "7", "8", "9">>[d + 1]

RECURSIVE Digits(_)
Digits(n) ==
  IF n < 10 THEN <<DigitChar(n)>>
  ELSE Digits(n \div 10) \o <<DigitChar(n % 10)>>

\* str(x) of a scalar; floats with a fractional part do not occur where the
\* source calls str
str(x) ==
  CASE x.t = "str" -> x.v
    [] x.t = "int" -> Digits(x.v)
    [] x.t = "float" /\ x.e = 0 -> Digits(x.v) \o <<".", "0">>
    [] x.t = "none" -> <<"N", "o", "n", "e">>

(***************************************************************************)
(* _compute_metrics                                                        *)
(***************************************************************************)
\* lines 926-935 without key normalisation in the list branch
parsed_keys_list_raw(parsed_feature_changes) ==
  IF parsed_feature_changes.t = "list"
  THEN UNION { IF parsed_feature_changes.v[i].t = "dict"
               THEN DOMAIN parsed_feature_changes.v[i].v
               ELSE {} : i \in 1..Len(parsed_feature_changes.v) }
  ELSE IF parsed_feature_changes.t = "dict"
  THEN {strip(lower(k)) : k \in DOMAIN parsed_feature_changes.v}
  ELSE {}

\* the keys of parsed_changes_dict; its values are never read
parsed_keys_of(parsed_feature_changes) ==
  IF parsed_feature_changes.t = "list"
  THEN UNION { IF parsed_feature_changes.v[i].t = "dict"
               THEN {strip(lower(k)) : k \in DOMAIN parsed_feature_changes.v[i].v}
               ELSE {} : i \in 1..Len(parsed_feature_changes.v) }
  ELSE IF parsed_feature_changes.t = "dict"
  THEN {strip(lower(k)) : k \in DOMAIN parsed_feature_changes.v}
  ELSE {}

ground_truth_keys_of(gt_changes) == {strip(lower(k)) : k \in DOMAIN gt_changes}

\* round(n / d, 3) in thousandths, ties to even
Round3(n, d) ==
  LET q == (1000 * n) \div d
      r == (1000 * n) % d
  IN  IF 2 * r > d \/ (2 * r = d /\ q % 2 = 1) THEN q + 1 ELSE q

\* pff that only asks for every ground-truth key to be captured
pff_captured_only(gt_keys, parsed_keys) ==
  IF Cardinality(gt_keys) = 0 THEN Cardinality(parsed_keys) = 0
  ELSE (gt_keys \cap parsed_keys) = gt_keys

pff_of(gt_keys, parsed_keys) ==
  IF Cardinality(gt_keys) = 0 THEN Cardinality(parsed_keys) = 0
  ELSE ((gt_keys \cap parsed_keys) = gt_keys) /\ (parsed_keys = gt_keys)

\* avg_ff taken over the union of both key sets
avg_ff_over_union(gt_keys, parsed_keys) ==
  IF Cardinality(gt_keys) = 0
  THEN (IF Cardinality(parsed_keys) = 0 THEN 1000 ELSE 0)
  ELSE Round3(Cardinality(gt_keys \cap parsed_keys),
              Cardinality(gt_keys \cup parsed_keys))

\* avg_ff in thousandths, after the round(avg_ff, 3) of the result
avg_ff_of(gt_keys, parsed_keys) ==
  IF Cardinality(gt_keys) = 0
  THEN (IF Cardinality(parsed_keys) = 0 THEN 1000 ELSE 0)
  ELSE Round3(Cardinality(gt_keys \cap parsed_keys), Cardinality(gt_keys))

\* tf against a named target, comparing values instead of their strings
tf_named_by_value(gt_target, parsed_target) ==
  IF parsed_target.t = "dict" /\ Truthy(parsed_target)
  THEN /\ Get(gt_target, "factual", PyNone)
            = Get(parsed_target.v, "factual", PyNone)
       /\ Get(gt_target, "counterfactual", PyNone)
            = Get(parsed_target.v, "counterfactual", PyNone)
  ELSE FALSE

\* lines 976-1008: the ground truth names a target
tf_named(gt_target, parsed_target) ==
  IF parsed_target.t = "dict" /\ Truthy(parsed_target)
  THEN LET gt_factual_str == strip(str(Get(gt_target, "factual", PyNone)))
           gt_counterfactual_str ==
             strip(str(Get(gt_target, "counterfactual", PyNone)))
           parsed_factual_str ==
             strip(str(Get(parsed_target.v, "factual", PyNone)))
           parsed_counterfactual_str ==
             strip(str(Get(parsed_target.v, "counterfactual", PyNone)))
       IN  /\ lower(gt_factual_str) = lower(parsed_factual_str)
           /\ lower(gt_counterfactual_str) = lower(parsed_counterfactual_str)
  ELSE FALSE

\* tf without a ground-truth target, without the isinstance disjunct
tf_unnamed_falsy_only(parsed_target) ==
  ~Truthy(parsed_target)

\* line 1011: the ground truth has no target
tf_unnamed(parsed_target) ==
  \/ ~Truthy(parsed_target)
  \/ parsed_target.t # "dict"
  \/ (parsed_target.t = "dict" /\ Cardinality(DOMAIN parsed_target.v) = 0)

NoMetrics ==
  [json_parsing_success |-> FALSE, pff |-> FALSE, tf |-> FALSE,
   avg_ff |-> [none |-> TRUE, milli |-> 0]]

\* json_parsing_success taken from the truth value of parsed_json
compute_metrics_truthy(pj, gt_changes, gt_target) ==
  IF pj.kind # "dict" \/ DOMAIN pj.val = {} THEN NoMetrics
  ELSE LET gt_keys == ground_truth_keys_of(gt_changes)
           parsed_keys ==
             parsed_keys_of(Get(pj.val, "feature_changes", PyList(<<>>)))
           parsed_target ==
             Get(pj.val, "target_variable_change", PyDict(EmptyDict))
       IN  [json_parsing_success |-> TRUE,
            pff |-> pff_of(gt_keys, parsed_keys),
            tf |-> IF DOMAIN gt_target # {}
                      /\ Truthy(Get(gt_target, "variable", PyNone))
                   THEN tf_named(gt_target, parsed_target)
                   ELSE tf_unnamed(parsed_target),
            avg_ff |-> [none |-> FALSE,
                        milli |-> avg_ff_of(gt_keys, parsed_keys)]]

\* the factual and counterfactual arguments are never read
_compute_metrics(pj, gt_changes, gt_target) ==
  IF pj.kind # "dict" THEN NoMetrics
  ELSE LET gt_keys == ground_truth_keys_of(gt_changes)
           parsed_keys ==
             parsed_keys_of(Get(pj.val, "feature_changes", PyList(<<>>)))
           parsed_target ==
             Get(pj.val, "target_variable_change", PyDict(EmptyDict))
       IN  [json_parsing_success |-> TRUE,
            pff |-> pff_of(gt_keys, parsed_keys),
            tf |-> IF DOMAIN gt_target # {}
                      /\ Truthy(Get(gt_target, "variable", PyNone))
                   THEN tf_named(gt_target, parsed_target)
                   ELSE tf_unnamed(parsed_target),
            avg_ff |-> [none |-> FALSE,
                        milli |-> avg_ff_of(gt_keys, parsed_keys)]]

(***************************************************************************)
(* _calculate_feature_changes                                              *)
(***************************************************************************)
IsNumber(x) == x.t \in {"int", "float"}

\* the 1e-10 part of a number
TenthNano(x) == IF x.t = "float" THEN x.e ELSE 0

\* Python ==: numbers compare by value across int and float, everything else
\* by type and value
PyEq(x, y) ==
  IF IsNumber(x) /\ IsNumber(y) THEN x.v = y.v /\ TenthNano(x) = TenthNano(y)
  ELSE IF x.t # y.t THEN FALSE
  ELSE x = y

\* the same function looping over the keys of factual only
feature_changes_of_factual_keys(f, c) ==
  LET changed == {key \in DOMAIN f :
                    ~PyEq(Get(f, key, PyNone), Get(c, key, PyNone))}
  IN  [key \in changed |-> [factual |-> Get(f, key, PyNone),
                            counterfactual |-> Get(c, key, PyNone)]]

_calculate_feature_changes(f, c) ==
  LET all_keys == (DOMAIN f) \cup (DOMAIN c)
      changed == {key \in all_keys :
                    ~PyEq(Get(f, key, PyNone), Get(c, key, PyNone))}
  IN  [key \in changed |-> [factual |-> Get(f, key, PyNone),
                            counterfactual |-> Get(c, key, PyNone)]]

(***************************************************************************)
(* _dicts_equal.  Its arguments are kept as Python keeps them: a sequence  *)
(* of key/value entries in insertion order, the keys distinct.             *)
(***************************************************************************)
Abs(n) == IF n < 0 THEN 0 - n ELSE n

keys(d) == {d[i].key : i \in 1..Len(d)}

\* d[key] of a key that d has
Item(d, key) == d[CHOOSE i \in 1..Len(d) : d[i].key = key].val

\* abs(float(val1) - float(val2)) > 1e-9.  The 1e-10 parts of the modelled
\* numbers stay far below 1, so numbers of different integer part differ by
\* more than the tolerance; two numbers exactly 1e-9 apart are not modelled.
differ_beyond_tolerance(val1, val2) ==
  \/ val1.v # val2.v
  \/ Abs(TenthNano(val1) - TenthNano(val2)) > 10

\* lines 349-361, the three branches of the loop body: TRUE when the loop
\* goes on to the next key
values_match(val1, val2) ==
  IF val1.t = "float" /\ val2.t = "float"
  THEN ~differ_beyond_tolerance(val1, val2)
  ELSE IF IsNumber(val1) /\ IsNumber(val2)
  THEN ~differ_beyond_tolerance(val1, val2)
  ELSE PyEq(val1, val2)

\* for key in dict1.keys(), from entry i on
RECURSIVE dicts_equal_from(_, _, _)
dicts_equal_from(d1, d2, i) ==
  IF i > Len(d1) THEN TRUE
  ELSE IF ~values_match(d1[i].val, Item(d2, d1[i].key)) THEN FALSE
  ELSE dicts_equal_from(d1, d2, i + 1)

\* the same function comparing only the keys the two records share
dicts_equal_shared_keys(d1, d2) ==
  \A i \in 1..Len(d1) :
    d1[i].key \in keys(d2) => values_match(d1[i].val, Item(d2, d1[i].key))

_dicts_equal(d1, d2) ==
  IF keys(d1) # keys(d2) THEN FALSE
  ELSE dicts_equal_from(d1, d2, 1)

(***************************************************************************)
(* _extract_target_change.  Both records are kept in insertion order: the  *)
(* dict comprehension of the second pass keeps, for keys that are equal    *)
(* when lower-cased, the one inserted last.                                *)
(***************************************************************************)
target_names ==
  << <<"t", "a", "r", "g", "e", "t">>,
     <<"l", "a", "b", "e", "l">>,
     <<"p", "r", "e", "d", "i", "c", "t", "i", "o", "n">>,
     <<"y">>,
     <<"S", "u", "r", "v", "i", "v", "e", "d">>,
     <<"I", "n", "c", "o", "m", "e">>,
     <<"M", "e", "d", "H", "o", "u", "s", "e", "V", "a", "l">>,
     <<"i", "n", "c", "o", "m", "e">>,
     <<"s", "u", "r", "v", "i", "v", "e", "d">>,
     <<"m", "e", "d", "h", "o", "u", "s", "e", "v", "a", "l">> >>

Max(S) == CHOOSE x \in S : \A y \in S : y <= x

\* the result for the key both records hold
target_change(f, c, key) ==
  [variable |-> PyStr(key), factual |-> Item(f, key),
   counterfactual |-> Item(c, key)]

\* for target_name in target_names: present in both and differing
exact_hits(f, c) ==
  {i \in 1..Len(target_names) :
     /\ target_names[i] \in keys(f)
     /\ target_names[i] \in keys(c)
     /\ ~PyEq(Item(f, target_names[i]), Item(c, target_names[i]))}

\* factual_keys_lower = {k.lower(): k for k in factual.keys()}
factual_keys_lower(f) ==
  [low \in {lower(f[i].key) : i \in 1..Len(f)} |->
     f[Max({i \in 1..Len(f) : lower(f[i].key) = low})].key]

\* for target_name_lower in [t.lower() for t in target_names]
lower_hits(f, c) ==
  {i \in 1..Len(target_names) :
     /\ lower(target_names[i]) \in DOMAIN factual_keys_lower(f)
     /\ factual_keys_lower(f)[lower(target_names[i])] \in keys(c)
     /\ ~PyEq(Item(f, factual_keys_lower(f)[lower(target_names[i])]),
              Item(c, factual_keys_lower(f)[lower(target_names[i])]))}

_extract_target_change(f, c) ==
  IF exact_hits(f, c) # {}
  THEN target_change(f, c, target_names[Min(exact_hits(f, c))])
  ELSE IF lower_hits(f, c) # {}
  THEN target_change(f, c,
         factual_keys_lower(f)[lower(target_names[Min(lower_hits(f, c))])])
  ELSE EmptyDict

(***************************************************************************)
(* Input texts: every concatenation of at most MaxSegs segments.           *)
(***************************************************************************)
SegmentPool ==
  { <<"{">>, <<"}">>, <<"F">>, <<"E">>, <<"w">>,
    <<"{", "a", "}">>, <<"{", "b", "}">>, <<"{", "q", "}">>,
    <<"{", "o", "}">>, <<"{", "t", "q", "}">>, <<"{", "}">>,
    <<"{", "n", "{", "b", "}", "}">>, <<"{", "t", "}">>,
    <<"{", "a", "o", "}">>,
    <<"F", "{", "q", "}", "E">>, <<"F", "{", "a", "}", "E">> }

RECURSIVE TextsOf(_)
TextsOf(n) ==
  IF n = 0 THEN {<<>>}
  ELSE LET shorter == TextsOf(n - 1)
       IN  shorter \cup {s \o g : s \in shorter, g \in SegmentPool}

(***************************************************************************)
(* The extractor applied to one text.                                      *)
(***************************************************************************)
\* the values of the variables an operation does not use
IdleExtract == text = <<>> /\ extracted = None

IdleMetrics ==
  /\ parsed_json = None
  /\ ground_truth_changes = EmptyDict
  /\ ground_truth_target = EmptyDict
  /\ metrics = NoMetrics

IdleDiff == factual = EmptyDict /\ counterfactual = EmptyDict /\ changes = EmptyDict

IdleEqual == dict1 = <<>> /\ dict2 = <<>> /\ equal = FALSE

NoRequest ==
  [endpoint |-> "", generation_type |-> "", model |-> "", num_narratives |-> 0,
   factual |-> <<>>, counterfactual |-> <<>>]

NoResponse == [status_code |-> 0, body |-> [detail |-> ""]]

\* nss: Optional[float] = None; a score is kept as the fraction agree / total
NoNss == [none |-> TRUE, agree |-> 0, total |-> 0]

\* llm counts the models _load_vllm_model has loaded and those
\* _unload_vllm_model has been called for
NoModel == [loads |-> 0, unloads |-> 0]

IdleServe ==
  /\ llm = NoModel
  /\ request = NoRequest
  /\ VLLM_AVAILABLE = FALSE
  /\ calls = <<>>
  /\ response = NoResponse
  /\ events = <<>>
  /\ drafts = <<>>
  /\ nss = NoNss
  /\ nss_computed = 0

InitExtract ==
  /\ pc = "start"
  /\ text \in TextsOf(MaxSegs)
  /\ extracted = None
  /\ IdleMetrics
  /\ IdleDiff
  /\ IdleEqual
  /\ IdleServe

ParseJsonResponse ==
  /\ pc = "start"
  /\ extracted' = _parse_json_response(text)
  /\ pc' = "parsed"
  /\ UNCHANGED <<text, parsed_json, ground_truth_changes, ground_truth_target,
                 metrics, factual, counterfactual, changes>>
  /\ UNCHANGED <<equalVars, serveVars>>

NextExtract == ParseJsonResponse

SpecExtract == InitExtract /\ [][NextExtract]_vars

(***************************************************************************)
(* The Metrics Engine applied to one extracted record and one ground       *)
(* truth.  Absent marks a key the record does not have.                    *)
(***************************************************************************)
Absent == [t |-> "absent", v |-> 0]

\* the dict of the given keys without those marked Absent
DictOf(sel) == [key \in {k \in DOMAIN sel : sel[k].t # "absent"} |-> sel[key]]

SeqsUpTo(S, n) == UNION {[1..m -> S] : m \in 0..n}

ParsedKeyPool == { <<"a">>, <<"A", " ">>, <<"b">> }

GtKeyPool == { <<"a">>, <<" ", "B">>, <<"c">> }

ListItems ==
  {PyDict([k \in {key} |-> PyInt(1)]) : key \in ParsedKeyPool}
    \cup {PyDict([k \in {<<"a">>, <<"b">>} |-> PyInt(1)]), PyStr(<<"a">>)}

FeatureChangesOptions ==
  {PyDict([k \in S |-> PyInt(1)]) : S \in SUBSET ParsedKeyPool}
    \cup {PyList(items) : items \in SeqsUpTo(ListItems, MaxItems)}
    \cup {PyStr(<<"a">>), PyNone, Absent}

TargetValues ==
  { PyInt(58), PyStr(<<"5", "8">>), PyFloat(58, 0), PyStr(<<"8", "6", " ">>),
    PyStr(<<"n", "o">>), Absent }

TargetOptions ==
  {PyDict(DictOf(sel)) : sel \in [{"factual", "counterfactual"} -> TargetValues]}
    \cup {PyStr(<<>>), PyStr(<<"5", "8">>), PyNone, Absent}

ParsedJsonOptions ==
  {None} \cup
  {DictValue(DictOf([k \in {"feature_changes", "target_variable_change"} |->
                       IF k = "feature_changes" THEN fc ELSE tg])) :
     fc \in FeatureChangesOptions, tg \in TargetOptions}

GroundTruthChangesOptions ==
  {[k \in S |-> [factual |-> PyInt(1), counterfactual |-> PyInt(2)]] :
     S \in SUBSET GtKeyPool}

GroundTruthTargetOptions ==
  { EmptyDict,
    [variable |-> PyStr(<<"y">>), factual |-> PyInt(58),
     counterfactual |-> PyInt(86)],
    [variable |-> PyStr(<<"y">>), factual |-> PyStr(<<"N", "o">>),
     counterfactual |-> PyInt(58)] }

InitMetrics ==
  /\ pc = "start"
  /\ parsed_json \in ParsedJsonOptions
  /\ ground_truth_changes \in GroundTruthChangesOptions
  /\ ground_truth_target \in GroundTruthTargetOptions
  /\ metrics = NoMetrics
  /\ IdleExtract
  /\ IdleDiff
  /\ IdleEqual
  /\ IdleServe

ComputeMetrics ==
  /\ pc = "start"
  /\ metrics' = _compute_metrics(parsed_json, ground_truth_changes,
                                 ground_truth_target)
  /\ pc' = "scored"
  /\ UNCHANGED <<text, extracted, parsed_json, ground_truth_changes,
                 ground_truth_target, factual, counterfactual, changes>>
  /\ UNCHANGED <<equalVars, serveVars>>

NextMetrics == ComputeMetrics

SpecMetrics == InitMetrics /\ [][NextMetrics]_vars

(***************************************************************************)
(* The Diff Engine applied to one pair of records.                         *)
(***************************************************************************)
RecordKeys == { <<"x">>, <<"y">> }

RecordValues ==
  { PyInt(1), PyFloat(1, 0), PyFloat(1, 1), PyFloat(1, 20), PyInt(2),
    PyStr(<<"1">>) }

AttributeRecords == UNION {[S -> RecordValues] : S \in SUBSET RecordKeys}

InitDiff ==
  /\ pc = "start"
  /\ factual \in AttributeRecords
  /\ counterfactual \in AttributeRecords
  /\ changes = EmptyDict
  /\ IdleExtract
  /\ IdleMetrics
  /\ IdleEqual
  /\ IdleServe

CalculateFeatureChanges ==
  /\ pc = "start"
  /\ changes' = _calculate_feature_changes(factual, counterfactual)
  /\ pc' = "diffed"
  /\ UNCHANGED <<text, extracted, parsed_json, ground_truth_changes,
                 ground_truth_target, metrics, factual, counterfactual>>
  /\ UNCHANGED <<equalVars, serveVars>>

NextDiff == CalculateFeatureChanges

SpecDiff == InitDiff /\ [][NextDiff]_vars

(***************************************************************************)
(* _dicts_equal applied to one pair of records, each in every order of its *)
(* entries.                                                                *)
(***************************************************************************)
OrderedRecords ==
  {d \in SeqsUpTo([key : RecordKeys, val : RecordValues], Cardinality(RecordKeys)) :
     \A i, j \in 1..Len(d) : d[i].key = d[j].key => i = j}

InitEqual ==
  /\ pc = "start"
  /\ dict1 \in OrderedRecords
  /\ dict2 \in OrderedRecords
  /\ equal = FALSE
  /\ IdleExtract
  /\ IdleMetrics
  /\ IdleDiff
  /\ IdleServe

DictsEqual ==
  /\ pc = "start"
  /\ equal' = _dicts_equal(dict1, dict2)
  /\ pc' = "compared"
  /\ UNCHANGED <<text, extracted, parsed_json, ground_truth_changes,
                 ground_truth_target, metrics, factual, counterfactual, changes,
                 dict1, dict2>>
  /\ UNCHANGED serveVars

NextEqual == DictsEqual

SpecEqual == InitEqual /\ [][NextEqual]_vars

(***************************************************************************)
(* _extract_target_change applied to one pair of records.  factual and     *)
(* counterfactual hold the records in insertion order, and the result is   *)
(* kept where generate_explanation passes it on, in ground_truth_target.   *)
(***************************************************************************)
TargetKeyList ==
  << <<"t", "a", "r", "g", "e", "t">>, <<"T", "a", "r", "g", "e", "t">>,
     <<"y">>, <<"I", "n", "c", "o", "m", "e">>, <<"a", "g", "e">> >>

TargetKeys == {TargetKeyList[i] : i \in 1..Len(TargetKeyList)}

TargetRecords ==
  {d \in SeqsUpTo([key : TargetKeys, val : {PyInt(0), PyInt(1)}],
                  MaxTargetKeys) :
     \A i, j \in 1..Len(d) : d[i].key = d[j].key => i = j}

\* counterfactual is read by key only: one insertion order of each record
ListedOrder(d) ==
  \A i, j \in 1..Len(d) :
     i < j => \E m, n \in 1..Len(TargetKeyList) :
                /\ m < n
                /\ TargetKeyList[m] = d[i].key
                /\ TargetKeyList[n] = d[j].key

InitTarget ==
  /\ pc = "start"
  /\ factual \in TargetRecords
  /\ counterfactual \in {d \in TargetRecords : ListedOrder(d)}
  /\ changes = EmptyDict
  /\ IdleExtract
  /\ IdleMetrics
  /\ IdleEqual
  /\ IdleServe

ExtractTargetChange ==
  /\ pc = "start"
  /\ ground_truth_target' = _extract_target_change(factual, counterfactual)
  /\ pc' = "extracted"
  /\ UNCHANGED <<text, extracted, parsed_json, ground_truth_changes,
                 metrics, factual, counterfactual, changes>>
  /\ UNCHANGED <<equalVars, serveVars>>

NextTarget == ExtractTargetChange

SpecTarget == InitTarget /\ [][NextTarget]_vars

(***************************************************************************)
(* The generation paths of generate_explanation.  One call of the          *)
(* generation collaborator either raises or returns a text.                *)
(***************************************************************************)
max_retries == 2

\* the texts the collaborator returns
ServeTexts ==
  { <<"w">>, <<"{", "o", "}">>, <<"{", "x", "}">>, <<"{", "y", "}">>,
    <<"{", "s", "}">> }

\* the element of a one-element set: Only({e(v) : v \in {x}}) is e(x) with x
\* evaluated once
Only(S) == CHOOSE v \in S : TRUE

CallRaises == [kind |-> "raise", text |-> <<>>]

CallReturns(t) == [kind |-> "text", text |-> t]

GenerationFailed == [kind |-> "raise", text |-> <<>>, parsed |-> None, calls |-> 0]

\* what is known of the run before the model is called: vLLM and the model
\* load, the sampling parameters and the chat template can each fail
SetupOutcomes == {"ok", "load raises", "sampling raises"}

\* a loop that re-raises the first generation error, whatever the attempt
RECURSIVE vllm_attempts_raise_at_once(_, _, _, _)
vllm_attempts_raise_at_once(outcomes, attempt, generated_text, pj) ==
  IF attempt > max_retries
  THEN [kind |-> "return", text |-> generated_text, parsed |-> pj,
        calls |-> max_retries]
  ELSE IF outcomes[attempt].kind = "raise"
  THEN [GenerationFailed EXCEPT !.calls = attempt]
  ELSE Only({ IF p.kind # "none"
               THEN [kind |-> "return", text |-> outcomes[attempt].text,
                     parsed |-> p, calls |-> attempt]
               ELSE vllm_attempts_raise_at_once(outcomes, attempt + 1,
                                                outcomes[attempt].text, p) :
               p \in {_parse_json_response(outcomes[attempt].text)} })

\* a loop that returns the text of the first attempt that produced one
RECURSIVE vllm_attempts_first_text(_, _, _, _)
vllm_attempts_first_text(outcomes, attempt, generated_text, pj) ==
  IF attempt > max_retries
  THEN [kind |-> "return", text |-> generated_text, parsed |-> pj,
        calls |-> max_retries]
  ELSE IF outcomes[attempt].kind = "raise"
  THEN IF attempt = max_retries
       THEN [GenerationFailed EXCEPT !.calls = attempt]
       ELSE vllm_attempts_first_text(outcomes, attempt + 1, generated_text, pj)
  ELSE Only({ IF p.kind # "none"
               THEN [kind |-> "return",
                     text |-> IF generated_text = <<>>
                              THEN outcomes[attempt].text ELSE generated_text,
                     parsed |-> p, calls |-> attempt]
               ELSE vllm_attempts_first_text(
                      outcomes, attempt + 1,
                      IF generated_text = <<>> THEN outcomes[attempt].text
                      ELSE generated_text, p) :
               p \in {_parse_json_response(outcomes[attempt].text)} })

\* for attempt in range(max_retries), from the given attempt on (1-based)
RECURSIVE vllm_attempts(_, _, _, _)
vllm_attempts(outcomes, attempt, generated_text, pj) ==
  IF attempt > max_retries
  THEN [kind |-> "return", text |-> generated_text, parsed |-> pj,
        calls |-> max_retries]
  ELSE IF outcomes[attempt].kind = "raise"
  THEN IF attempt = max_retries
       THEN [GenerationFailed EXCEPT !.calls = attempt]
       ELSE vllm_attempts(outcomes, attempt + 1, generated_text, pj)
  ELSE Only({ IF p.kind # "none"
               THEN [kind |-> "return", text |-> outcomes[attempt].text,
                     parsed |-> p, calls |-> attempt]
               ELSE vllm_attempts(outcomes, attempt + 1,
                                  outcomes[attempt].text, p) :
               p \in {_parse_json_response(outcomes[attempt].text)} })

\* an unload that is skipped when the run ends with an exception
unloads_on_return_only(loaded, exit_kind) ==
  IF loaded /\ exit_kind = "return" THEN 1 ELSE 0

\* finally: if llm is not None: self._unload_vllm_model(llm)
unloads_on_exit(loaded, exit_kind) == IF loaded THEN 1 ELSE 0

\* the outcome of a generation path with the models it loaded and unloaded
with_llm(exit, loaded) ==
  [kind |-> exit.kind, text |-> exit.text, parsed |-> exit.parsed,
   calls |-> exit.calls,
   llm |-> [loads |-> IF loaded THEN 1 ELSE 0,
            unloads |-> unloads_on_exit(loaded, exit.kind)]]

\* _load_vllm_model raises unless vLLM was imported; the model is then
\* called once per attempt, and unloaded however the run ends
_generate_with_vllm(vllm_available, setup, outcomes) ==
  IF ~vllm_available \/ setup = "load raises"
  THEN with_llm(GenerationFailed, FALSE)
  ELSE IF setup = "sampling raises" THEN with_llm(GenerationFailed, TRUE)
  ELSE Only({ with_llm(exit, TRUE) :
              exit \in {vllm_attempts(outcomes, 1, <<>>, None)} })

\* a Gemini path that answers a failed call with an empty text
generate_with_gemini_empty_on_error(outcomes) ==
  IF outcomes[1].kind = "raise"
  THEN [kind |-> "return", text |-> <<>>, parsed |-> None, calls |-> 1,
        llm |-> NoModel]
  ELSE [kind |-> "return", text |-> outcomes[1].text,
        parsed |-> _parse_json_response(outcomes[1].text), calls |-> 1,
        llm |-> NoModel]

\* one call of the Gemini model, then the extractor on its text
generate_with_gemini(outcomes) ==
  IF outcomes[1].kind = "raise"
  THEN [kind |-> "raise", text |-> <<>>, parsed |-> None, calls |-> 1,
        llm |-> NoModel]
  ELSE [kind |-> "return", text |-> outcomes[1].text,
        parsed |-> _parse_json_response(outcomes[1].text), calls |-> 1,
        llm |-> NoModel]

_is_gemini_model(model_name) == model_name = "gemini-flash"

\* the synthetic text and narrative of _generate_dummy_explanation
DemoRawOutput == <<"think", "F", "{", "demo", "}", "E">>

DemoNarrative == <<"demo narrative">>

\* MetricsResponse(json_parsing_success=True, pff=True, tf=True, avg_ff=1.0)
DemoMetrics ==
  [json_parsing_success |-> TRUE, pff |-> TRUE, tf |-> TRUE,
   avg_ff |-> [none |-> FALSE, milli |-> 1000]]

\* the three invented features used when the records do not differ
DemoFeatureChanges ==
  [k \in {<<"feature_1">>, <<"feature_2">>, <<"feature_3">>} |->
     [factual |-> PyStr(<<"A">>), counterfactual |-> PyStr(<<"B">>)]]

\* the record as a mapping, for the functions that do not read its order
dict_of(d) == [key \in keys(d) |-> Item(d, key)]

_generate_dummy_explanation(f, c) ==
  [explanation |-> DemoNarrative, raw_output |-> DemoRawOutput,
   parsed_json |-> DictValue([k \in required_keys |-> "demo"]),
   feature_changes |->
     IF DOMAIN _calculate_feature_changes(dict_of(f), dict_of(c)) = {}
     THEN DemoFeatureChanges
     ELSE _calculate_feature_changes(dict_of(f), dict_of(c)),
   target_variable_change |-> _extract_target_change(f, c),
   metrics |-> DemoMetrics,
   status |-> "demo"]

\* the Python value of a member value of the extracted object
python_value(label) ==
  CASE label = "1" -> PyInt(1)
    [] label = "2" -> PyInt(2)
    [] label = "None" -> PyNone
    [] label = "age:1,income:2" ->
         PyDict([k \in {<<"a", "g", "e">>, <<"i", "n", "c", "o", "m", "e">>} |->
                   IF k = <<"a", "g", "e">> THEN PyStr(<<"1">>)
                   ELSE PyStr(<<"2">>)])
    [] label = "age:2,income:1" ->
         PyDict([k \in {<<"a", "g", "e">>, <<"i", "n", "c", "o", "m", "e">>} |->
                   IF k = <<"a", "g", "e">> THEN PyStr(<<"2">>)
                   ELSE PyStr(<<"1">>)])
    [] label = "{7}" -> [t |-> "set", v |-> {7}]
    [] OTHER -> PyStr(<<label>>)

\* parsed_json as _compute_metrics reads it
as_python(parsed) ==
  IF parsed.kind # "dict" THEN parsed
  ELSE DictValue([k \in DOMAIN parsed.val |-> python_value(parsed.val[k])])

Returns(result, n, m) ==
  [kind |-> "return", result |-> result, calls |-> n, llm |-> m]

Raises(message, n, m) ==
  [kind |-> "raise", message |-> message, calls |-> n, llm |-> m]

\* a result builder that turns a failed extraction into a request error
explanation_result_strict(g, f, c) ==
  IF g.kind = "raise" \/ g.parsed.kind = "none"
  THEN Raises("Error generating explanation", g.calls, g.llm)
  ELSE Returns(
         [explanation |-> g.text, raw_output |-> g.text,
          parsed_json |-> g.parsed,
          feature_changes |-> _calculate_feature_changes(dict_of(f), dict_of(c)),
          target_variable_change |-> _extract_target_change(f, c),
          metrics |->
            _compute_metrics(as_python(g.parsed),
                             _calculate_feature_changes(dict_of(f), dict_of(c)),
                             _extract_target_change(f, c)),
          status |-> "success"],
         g.calls, g.llm)

\* lines 797-826: the result built from a generation g, or the exception
\* that wraps its failure
explanation_result(g, f, c) ==
  IF g.kind = "raise"
  THEN Raises("Error generating explanation", g.calls, g.llm)
  ELSE Returns(
         [explanation |->
            IF g.parsed.kind = "dict" /\ DOMAIN g.parsed.val # {}
               /\ "explanation" \in DOMAIN g.parsed.val
            THEN <<g.parsed.val["explanation"]>>
            ELSE g.text,
          raw_output |-> g.text,
          parsed_json |-> g.parsed,
          feature_changes |-> _calculate_feature_changes(dict_of(f), dict_of(c)),
          target_variable_change |-> _extract_target_change(f, c),
          metrics |->
            _compute_metrics(as_python(g.parsed),
                             _calculate_feature_changes(dict_of(f), dict_of(c)),
                             _extract_target_change(f, c)),
          status |-> "success"],
         g.calls, g.llm)

\* the result record or the exception of one call; calls counts the calls of
\* the generation collaborator it made
generate_explanation(model, vllm_available, setup, outcomes, f, c) ==
  IF model = "demo" THEN Returns(_generate_dummy_explanation(f, c), 0, NoModel)
  ELSE Only({ explanation_result(g, f, c) :
              g \in { IF _is_gemini_model(model) THEN generate_with_gemini(outcomes)
                      ELSE _generate_with_vllm(vllm_available, setup, outcomes) } })

(***************************************************************************)
(* The endpoints explain and explain_stream.  events holds the frames      *)
(* generate_sse has yielded, each as the event object it carries.          *)
(***************************************************************************)
\* json.dumps raises TypeError on a set, which ast.literal_eval can produce
RECURSIVE has_set(_)
has_set(d) ==
  \/ "tags" \in DOMAIN d
  \/ ("detail" \in DOMAIN d /\ has_set(d["detail"]))

json_dumps_raises(result) ==
  result.parsed_json.kind = "dict" /\ has_set(result.parsed_json.val)

\* ExplainResponse(**result): the fields of the result, the others defaulted
ExplainResponse(result) ==
  [explanation |-> result.explanation, raw_output |-> result.raw_output,
   parsed_json |-> result.parsed_json,
   feature_changes |-> result.feature_changes,
   target_variable_change |-> result.target_variable_change,
   metrics |-> result.metrics, status |-> result.status,
   explanation_extraction_warning |-> FALSE,
   nss |-> NoNss, drafts |-> <<>>]

\* raise HTTPException(status_code=500, detail=str(e))
HTTPException(code, detail) == [status_code |-> code, body |-> [detail |-> detail]]

\* {'type': 'complete', **result}
complete_event(result) ==
  [type |-> "complete", explanation |-> result.explanation,
   raw_output |-> result.raw_output, parsed_json |-> result.parsed_json,
   feature_changes |-> result.feature_changes,
   target_variable_change |-> result.target_variable_change,
   metrics |-> result.metrics, status |-> result.status]

\* a relay that passes on only the events of successful drafts
sse_yield_success_only(evs, event) ==
  IF event.type = "draft_update" /\ event.status # "success" THEN evs
  ELSE Append(evs, event)

\* yield f"data: {json.dumps(event)}\n\n"
sse_yield(evs, event) == Append(evs, event)

\* an exception handler that ends the stream silently
on_exception_silent(evs, message) == evs

\* except Exception as e: yield the error event
on_exception(evs, message) ==
  Append(evs, [type |-> "error", message |-> message])

CallOutcomes == {CallRaises} \cup {CallReturns(t) : t \in ServeTexts}

NumNarratives == 1..5

\* the record pairs of the requests: the features age and y both changed, y
\* being a target name, and a pair of equal records
RequestPairs ==
  { [factual |-> << [key |-> <<"a", "g", "e">>, val |-> PyInt(0)],
                    [key |-> <<"y">>, val |-> PyInt(0)] >>,
     counterfactual |-> << [key |-> <<"a", "g", "e">>, val |-> PyInt(1)],
                           [key |-> <<"y">>, val |-> PyInt(1)] >>],
    [factual |-> << [key |-> <<"a", "g", "e">>, val |-> PyInt(0)] >>,
     counterfactual |-> << [key |-> <<"a", "g", "e">>, val |-> PyInt(0)] >>] }

with_records(r, p) ==
  [endpoint |-> r.endpoint, generation_type |-> r.generation_type,
   model |-> r.model, num_narratives |-> r.num_narratives,
   factual |-> p.factual, counterfactual |-> p.counterfactual]

Requests ==
  {with_records(r, p) : p \in RequestPairs, r \in
   {r \in [endpoint : {"explain", "stream"},
          generation_type : {"one-shot", "self-refinement"},
          model : {"demo", "gemini-flash", "qwen"},
          num_narratives : NumNarratives] :
     \* the demo model is not defined for a refinement batch
     ~(r.endpoint = "stream" /\ r.generation_type = "self-refinement"
       /\ r.model = "demo")}}

InitServe ==
  /\ pc = "start"
  /\ llm = NoModel
  /\ request \in Requests
  /\ VLLM_AVAILABLE \in BOOLEAN
  /\ calls = <<>>
  /\ response = NoResponse
  /\ events = <<>>
  /\ drafts = <<>>
  /\ nss = NoNss
  /\ nss_computed = 0
  /\ IdleExtract
  /\ IdleMetrics
  /\ IdleDiff
  /\ IdleEqual

otherVars ==
  <<text, extracted, parsed_json, ground_truth_changes, ground_truth_target,
    metrics, factual, counterfactual, changes, equalVars>>

\* POST /api/explain
Explain ==
  /\ pc = "start"
  /\ request.endpoint = "explain"
  /\ \E setup \in SetupOutcomes, outcomes \in [1..max_retries -> CallOutcomes] :
       \E r \in {generate_explanation(request.model, VLLM_AVAILABLE, setup,
                                      outcomes, request.factual,
                                      request.counterfactual)} :
           /\ response' = IF r.kind = "return"
                          THEN [status_code |-> 200,
                                body |-> ExplainResponse(r.result)]
                          ELSE HTTPException(500, r.message)
           /\ calls' = SubSeq(outcomes, 1, r.calls)
           /\ llm' = r.llm
  /\ pc' = "closed"
  /\ UNCHANGED <<request, VLLM_AVAILABLE, events, drafts, nss, nss_computed>>
  /\ UNCHANGED otherVars

\* POST /api/explain/stream, the one-shot branch of generate_sse
StreamOneShot ==
  /\ pc = "start"
  /\ request.endpoint = "stream"
  /\ request.generation_type # "self-refinement"
  /\ \E setup \in SetupOutcomes, outcomes \in [1..max_retries -> CallOutcomes] :
       \E r \in {generate_explanation(request.model, VLLM_AVAILABLE, setup,
                                      outcomes, request.factual,
                                      request.counterfactual)} :
           /\ events' = IF r.kind = "raise"
                        THEN on_exception(events, r.message)
                        ELSE IF json_dumps_raises(r.result)
                        THEN on_exception(events, "not JSON serializable")
                        ELSE sse_yield(events, complete_event(r.result))
           /\ calls' = SubSeq(outcomes, 1, r.calls)
           /\ llm' = r.llm
  /\ pc' = "closed"
  /\ UNCHANGED <<request, VLLM_AVAILABLE, response, drafts, nss, nss_computed>>
  /\ UNCHANGED otherVars

(***************************************************************************)
(* The Refinement Orchestrator, generate_self_refinement, as section 4.4   *)
(* of the specification describes it, driven by the self-refinement        *)
(* branch of generate_sse.  pc is the position of the generator:           *)
(*   "next"     between two drafts        "loading"  a draft is generating *)
(*   "emit"     a draft has ended and its draft_update is to be yielded    *)
(***************************************************************************)
\* the keyword arguments of the call at lines 182-191
self_refinement_arguments(req) == [model |-> req.model]

\* N (1-5, default 5)
DefaultNumNarratives == 5

num_narratives_of(arguments) ==
  IF "num_narratives" \in DOMAIN arguments THEN arguments["num_narratives"]
  ELSE DefaultNumNarratives

\* the mapping a features_importance_ranking member spells out
ranking_of(label) ==
  CASE label = "age:1,income:2" -> [f \in {"age", "income"} |->
                                      IF f = "age" THEN "1" ELSE "2"]
    [] label = "age:2,income:1" -> [f \in {"age", "income"} |->
                                      IF f = "age" THEN "2" ELSE "1"]
    [] OTHER -> EmptyDict

\* a draft that is created already failed
FailedDraft(i) ==
  [index |-> i, status |-> "failed", ranking |-> "none", explanation |-> <<>>]

PendingDraft(i) ==
  [index |-> i, status |-> "pending", ranking |-> "none", explanation |-> <<>>]

Terminal(d) == d.status \in {"success", "failed"}

Successful(ds) == {i \in 1..Len(ds) : ds[i].status = "success"}

\* a draft that fails only on a generation error
draft_outcome_text_is_success(d, outcome) ==
  IF outcome.kind = "raise" THEN [d EXCEPT !.status = "failed"]
  ELSE [d EXCEPT !.status = "success", !.explanation = outcome.text]

\* a draft ended by one generation call: failed on a generation error or
\* when the extractor finds nothing, success otherwise
draft_outcome(d, outcome) ==
  IF outcome.kind = "raise" THEN [d EXCEPT !.status = "failed"]
  ELSE Only({ IF parsed.kind # "dict" THEN [d EXCEPT !.status = "failed"]
              ELSE [d EXCEPT !.status = "success",
                             !.ranking = Get(parsed.val,
                                             "features_importance_ranking", "none"),
                             !.explanation =
                               IF "explanation" \in DOMAIN parsed.val
                               THEN <<parsed.val["explanation"]>>
                               ELSE outcome.text] :
              parsed \in {_parse_json_response(outcome.text)} })

\* pairwise agreement of the rankings of the drafts in S over the union of
\* their feature names
agreement(ds, S) ==
  LET features == UNION {DOMAIN ranking_of(ds[i].ranking) : i \in S}
      pairs == {p \in S \X S : p[1] < p[2]}
      agreeing == {c \in pairs \X features :
                     LET r1 == ranking_of(ds[c[1][1]].ranking)
                         r2 == ranking_of(ds[c[1][2]].ranking)
                     IN  /\ c[2] \in DOMAIN r1
                         /\ c[2] \in DOMAIN r2
                         /\ r1[c[2]] = r2[c[2]]}
  IN  [none |-> FALSE, agree |-> Cardinality(agreeing),
       total |-> Cardinality(pairs) * Cardinality(features)]

\* a score taken over every draft, the failed ones included
narrative_stability_score_all(ds) ==
  IF Len(ds) < 2 THEN NoNss ELSE agreement(ds, 1..Len(ds))

\* a score given as soon as one draft succeeded
narrative_stability_score_from_one(ds) ==
  IF Cardinality(Successful(ds)) < 1 THEN NoNss
  ELSE agreement(ds, Successful(ds))

narrative_stability_score(ds) ==
  IF Cardinality(Successful(ds)) < 2 THEN NoNss
  ELSE agreement(ds, Successful(ds))

draft_update_event(d) ==
  [type |-> "draft_update", index |-> d.index, status |-> d.status,
   ranking |-> d.ranking, explanation |-> d.explanation]

\* the batch cannot proceed: the collaborator is unavailable
CollaboratorUnavailable ==
  ~_is_gemini_model(request.model) /\ ~VLLM_AVAILABLE

FirstPending == Min({i \in 1..Len(drafts) : drafts[i].status = "pending"})

\* a batch that starts the generation of all its pending drafts together
mark_loading_all(ds, i) ==
  [j \in 1..Len(ds) |->
     IF ds[j].status = "pending" THEN [ds[j] EXCEPT !.status = "loading"]
     ELSE ds[j]]

\* mark draft i loading: its generation call starts
mark_loading(ds, i) == [ds EXCEPT ![i].status = "loading"]

LastTerminal ==
  CHOOSE i \in 1..Len(drafts) :
    /\ Terminal(drafts[i])
    /\ \A j \in 1..Len(drafts) : Terminal(drafts[j]) => j <= i

SelfRefinementRequest ==
  request.endpoint = "stream" /\ request.generation_type = "self-refinement"

\* the generator is started; an unavailable collaborator ends the stream
\* through the exception handler of generate_sse
StartSelfRefinement ==
  /\ pc = "start"
  /\ SelfRefinementRequest
  /\ IF CollaboratorUnavailable
     THEN /\ events' = on_exception(events, "generation collaborator unavailable")
          /\ pc' = "closed"
          /\ UNCHANGED drafts
     ELSE /\ drafts' = [i \in 1..num_narratives_of(self_refinement_arguments(request))
                          |-> PendingDraft(i - 1)]
          /\ pc' = "next"
          /\ UNCHANGED events
  /\ UNCHANGED <<request, VLLM_AVAILABLE, calls, response, nss, nss_computed, llm>>
  /\ UNCHANGED otherVars

MarkLoading ==
  /\ pc = "next"
  /\ \E i \in 1..Len(drafts) : drafts[i].status = "pending"
  /\ drafts' = mark_loading(drafts, FirstPending)
  /\ pc' = "loading"
  /\ UNCHANGED <<request, VLLM_AVAILABLE, calls, response, events, nss,
                 nss_computed, llm>>
  /\ UNCHANGED otherVars

GenerateDraft ==
  /\ pc = "loading"
  /\ \E i \in 1..Len(drafts), outcome \in CallOutcomes \ {CallReturns(<<"{", "s", "}">>)} :
       /\ drafts[i].status = "loading"
       /\ drafts' = [drafts EXCEPT ![i] = draft_outcome(drafts[i], outcome)]
       /\ calls' = Append(calls, outcome)
  /\ pc' = "emit"
  /\ UNCHANGED <<request, VLLM_AVAILABLE, response, events, nss, nss_computed, llm>>
  /\ UNCHANGED otherVars

EmitDraftUpdate ==
  /\ pc = "emit"
  /\ events' = sse_yield(events, draft_update_event(drafts[LastTerminal]))
  /\ pc' = "next"
  /\ UNCHANGED <<request, VLLM_AVAILABLE, calls, response, drafts, nss,
                 nss_computed, llm>>
  /\ UNCHANGED otherVars

\* every draft has ended: the score is computed and the terminal event sent;
\* a batch without a successful draft is a request-level failure
FinishSelfRefinement ==
  /\ pc = "next"
  /\ \A i \in 1..Len(drafts) : Terminal(drafts[i])
  /\ nss' = narrative_stability_score(drafts)
  /\ nss_computed' = nss_computed + 1
  /\ IF Successful(drafts) = {}
     THEN events' = on_exception(events, "all drafts failed")
     ELSE \E best \in Successful(drafts) :
            events' = sse_yield(events,
                        [type |-> "complete", status |-> "success",
                         explanation |-> drafts[best].explanation,
                         nss |-> narrative_stability_score(drafts),
                         drafts |-> drafts])
  /\ pc' = "closed"
  /\ UNCHANGED <<request, VLLM_AVAILABLE, calls, response, drafts, llm>>
  /\ UNCHANGED otherVars

NextServe ==
  \/ Explain
  \/ StreamOneShot
  \/ StartSelfRefinement
  \/ MarkLoading
  \/ GenerateDraft
  \/ EmitDraftUpdate
  \/ FinishSelfRefinement

SpecServe == InitServe /\ [][NextServe]_vars

(***************************************************************************)
(* Properties of the Response Extractor.                                   *)
(***************************************************************************)
ParsedCandidate(t, i) == _try_load_json_snippet(Snippet(t, Candidates(t)[i]))

CandidateIndices(t) == 1..Len(Candidates(t))

\* the highest tier some candidate of t qualifies for; 0 when none parses
HighestTier(t) ==
  IF \E i \in CandidateIndices(t) : Qualifies(ParsedCandidate(t, i), 1) THEN 1
  ELSE IF \E i \in CandidateIndices(t) : Qualifies(ParsedCandidate(t, i), 2) THEN 2
  ELSE IF \E i \in CandidateIndices(t) : Qualifies(ParsedCandidate(t, i), 3) THEN 3
  ELSE 0

\* C1: _parse_json_response never raises, whatever the text: it returns a
\* mapping or None.
C1_NeverRaises ==
  pc = "parsed" => extracted.kind \in {"dict", "none"}

\* a text with a candidate that both parsers reject was answered with None
C1_Witness ==
  /\ pc = "parsed"
  /\ extracted = None
  /\ \E i \in CandidateIndices(text) :
       /\ json_loads(Snippet(text, Candidates(text)[i])).kind = "raise"
       /\ literal_eval(Snippet(text, Candidates(text)[i])).kind = "raise"

\* C2: the result belongs to the highest tier any candidate qualifies for,
\* wherever the candidates sit in the text, and it is None only when no
\* candidate parses to a mapping.
C2_HighestTierWins ==
  pc = "parsed" =>
    IF HighestTier(text) = 0 THEN extracted = None
    ELSE Qualifies(extracted, HighestTier(text))

\* a candidate with all four keys won although a lower-tier mapping follows it
C2_Witness ==
  /\ pc = "parsed"
  /\ Qualifies(extracted, 1)
  /\ \E i, j \in CandidateIndices(text) :
       /\ Candidates(text)[i].start < Candidates(text)[j].start
       /\ Qualifies(ParsedCandidate(text, i), 1)
       /\ Qualifies(ParsedCandidate(text, j), 3)
       /\ ~Qualifies(ParsedCandidate(text, j), 1)

\* C3: among the candidates that qualify for the winning tier, the result is
\* the one that occurs last in the text.
C3_LastInTextWins ==
  (pc = "parsed" /\ extracted.kind = "dict") =>
    LET winners == {i \in CandidateIndices(text) :
                      Qualifies(ParsedCandidate(text, i), HighestTier(text))}
        last == CHOOSE i \in winners :
                  \A j \in winners :
                    Candidates(text)[j].start <= Candidates(text)[i].start
    IN  extracted = ParsedCandidate(text, last)

(***************************************************************************)
(* Properties of the Metrics Engine.                                       *)
(***************************************************************************)
ParsedOk == parsed_json.kind = "dict"

ExtractedFeatureChanges == Get(parsed_json.val, "feature_changes", Absent)

ExtractedTarget == Get(parsed_json.val, "target_variable_change", Absent)

\* the feature names an extracted feature_changes value lists, as written
WrittenKeys(fc) ==
  IF fc.t = "dict" THEN DOMAIN fc.v
  ELSE IF fc.t = "list"
  THEN UNION {DOMAIN fc.v[i].v : i \in {j \in 1..Len(fc.v) : fc.v[j].t = "dict"}}
  ELSE {}

ExtractedKeySet == {lower(strip(k)) : k \in WrittenKeys(ExtractedFeatureChanges)}

GroundTruthKeySet == {lower(strip(k)) : k \in DOMAIN ground_truth_changes}

StrictSuperset == GroundTruthKeySet \subseteq ExtractedKeySet
                    /\ GroundTruthKeySet # ExtractedKeySet

GroundTruthNamesTarget == DOMAIN ground_truth_target # {}

NormalizedString(x) == lower(strip(str(x)))

\* C4: json_parsing_success is true iff the extractor's result is not None
\* (an empty mapping is a result); when it is false the metrics are exactly
\* pff = false, tf = false, avg_ff = None, whatever the ground truth.
C4_ParsingSuccess ==
  pc = "scored" =>
    /\ metrics.json_parsing_success <=> (parsed_json.kind # "none")
    /\ ~metrics.json_parsing_success =>
         /\ metrics.pff = FALSE
         /\ metrics.tf = FALSE
         /\ metrics.avg_ff.none

\* no result was extracted although the ground truth has changes and a target
C4_Witness ==
  /\ pc = "scored"
  /\ parsed_json.kind = "none"
  /\ ~metrics.json_parsing_success
  /\ DOMAIN ground_truth_changes # {}
  /\ GroundTruthNamesTarget

\* C5 as stated: pff is true iff the normalised ground-truth key set equals
\* the normalised extracted key set, and every extracted strict superset of
\* the ground truth gives pff = false with avg_ff = 1.0.
C5_Original ==
  (pc = "scored" /\ ParsedOk) =>
    /\ metrics.pff <=> (GroundTruthKeySet = ExtractedKeySet)
    /\ StrictSuperset => (~metrics.pff /\ metrics.avg_ff.milli = 1000)

\* C5 as amended: pff is true iff the normalised ground-truth key set equals
\* the normalised extracted key set, and every extracted strict superset of a
\* non-empty ground truth gives pff = false with avg_ff = 1.0.
C5_PerfectFeatureField ==
  (pc = "scored" /\ ParsedOk) =>
    /\ metrics.pff <=> (GroundTruthKeySet = ExtractedKeySet)
    /\ (StrictSuperset /\ GroundTruthKeySet # {}) =>
         (~metrics.pff /\ metrics.avg_ff.milli = 1000)

\* an extra feature was extracted on top of a non-empty ground truth
C5_Witness ==
  /\ pc = "scored"
  /\ ParsedOk
  /\ StrictSuperset
  /\ GroundTruthKeySet # {}
  /\ ~metrics.pff
  /\ metrics.avg_ff.milli = 1000

\* C6: after a successful extraction avg_ff is the share of ground-truth keys
\* that were extracted, rounded to 3 decimals; with an empty ground truth it
\* is 1.0 for an empty extracted key set and 0.0 otherwise; it lies in [0, 1].
C6_AverageFeatureField ==
  (pc = "scored" /\ ParsedOk) =>
    LET g == Cardinality(GroundTruthKeySet)
        n == Cardinality(GroundTruthKeySet \cap ExtractedKeySet)
        m == metrics.avg_ff.milli
    IN  /\ ~metrics.avg_ff.none
        /\ g > 0 => (2 * (1000 * n - m * g) <= g /\ 2 * (m * g - 1000 * n) <= g)
        /\ g = 0 => m = (IF ExtractedKeySet = {} THEN 1000 ELSE 0)
        /\ 0 <= m /\ m <= 1000

\* two of three ground-truth keys were extracted: 0.667
C6_Witness ==
  /\ pc = "scored"
  /\ ParsedOk
  /\ Cardinality(GroundTruthKeySet) = 3
  /\ Cardinality(GroundTruthKeySet \cap ExtractedKeySet) = 2
  /\ metrics.avg_ff.milli = 667

\* C7: with a named ground-truth target, tf is true iff the extracted
\* target_variable_change is a non-empty mapping whose factual and
\* counterfactual values, stringified, trimmed and lower-cased, equal the
\* ground truth's; 58 and "58" match.
C7_TargetFieldNamed ==
  (pc = "scored" /\ ParsedOk /\ GroundTruthNamesTarget) =>
    (metrics.tf <=>
       /\ ExtractedTarget.t = "dict"
       /\ "factual" \in DOMAIN ExtractedTarget.v
       /\ "counterfactual" \in DOMAIN ExtractedTarget.v
       /\ NormalizedString(ExtractedTarget.v["factual"])
            = NormalizedString(ground_truth_target["factual"])
       /\ NormalizedString(ExtractedTarget.v["counterfactual"])
            = NormalizedString(ground_truth_target["counterfactual"]))

\* the number 58 of the ground truth was matched by the string "58"
C7_Witness ==
  /\ pc = "scored"
  /\ ParsedOk
  /\ GroundTruthNamesTarget
  /\ ground_truth_target["factual"] = PyInt(58)
  /\ ExtractedTarget.t = "dict"
  /\ "factual" \in DOMAIN ExtractedTarget.v
  /\ ExtractedTarget.v["factual"].t = "str"
  /\ metrics.tf

TargetAbsentOrEmpty ==
  IF ExtractedTarget.t = "absent" THEN TRUE ELSE ~Truthy(ExtractedTarget)

\* C8 as stated: without a ground-truth target, tf is true iff the extracted
\* target_variable_change is absent or empty; every non-empty value, whatever
\* its shape, gives tf = false.
C8_Original ==
  (pc = "scored" /\ ParsedOk /\ ~GroundTruthNamesTarget) =>
    (metrics.tf <=> TargetAbsentOrEmpty)

\* C8 as amended: without a ground-truth target, tf is true iff the extracted
\* target_variable_change is absent, empty or not a mapping; every non-empty
\* mapping gives tf = false.
C8_TargetFieldUnnamed ==
  (pc = "scored" /\ ParsedOk /\ ~GroundTruthNamesTarget) =>
    (metrics.tf <=> (TargetAbsentOrEmpty \/ ExtractedTarget.t # "dict"))

\* a non-empty string was supplied as target change and tf is true
C8_Witness ==
  /\ pc = "scored"
  /\ ParsedOk
  /\ ~GroundTruthNamesTarget
  /\ ExtractedTarget.t = "str"
  /\ Len(ExtractedTarget.v) > 0
  /\ metrics.tf

IsSingleKeyList(fc) ==
  /\ fc.t = "list"
  /\ \A i \in 1..Len(fc.v) :
       fc.v[i].t = "dict" /\ Cardinality(DOMAIN fc.v[i].v) = 1

\* the mapping with the entries of a sequence of single-key mappings
AsMapping(fc) ==
  PyDict([k \in UNION {DOMAIN fc.v[i].v : i \in 1..Len(fc.v)} |-> PyInt(1)])

WithFeatureChanges(fc) ==
  DictValue(Merge(parsed_json.val, [k \in {"feature_changes"} |-> fc]))

\* C9: a sequence of single-key mappings scores exactly as the mapping of the
\* same entries, and a feature_changes value of any other shape scores as an
\* empty mapping.
C9_ShapeTolerance ==
  (pc = "scored" /\ ParsedOk) =>
    /\ IsSingleKeyList(ExtractedFeatureChanges) =>
         metrics = _compute_metrics(
                     WithFeatureChanges(AsMapping(ExtractedFeatureChanges)),
                     ground_truth_changes, ground_truth_target)
    /\ ExtractedFeatureChanges.t \in {"str", "none"} =>
         metrics = _compute_metrics(WithFeatureChanges(PyDict(EmptyDict)),
                                    ground_truth_changes, ground_truth_target)

\* a sequence naming "A " matched the ground-truth key "a"
C9_Witness ==
  /\ pc = "scored"
  /\ ParsedOk
  /\ IsSingleKeyList(ExtractedFeatureChanges)
  /\ WrittenKeys(ExtractedFeatureChanges) = { <<"A", " ">> }
  /\ DOMAIN ground_truth_changes = { <<"a">> }
  /\ metrics.pff

(***************************************************************************)
(* Properties of the Diff Engine.                                          *)
(***************************************************************************)
\* two present values are the same number, or the same value of one type
SameValue(x, y) ==
  IF x.t \in {"int", "float"} /\ y.t \in {"int", "float"}
  THEN x.v = y.v /\ TenthNano(x) = TenthNano(y)
  ELSE x.t = y.t /\ x.v = y.v

DiffersAt(key) ==
  \/ key \notin DOMAIN factual
  \/ key \notin DOMAIN counterfactual
  \/ ~SameValue(factual[key], counterfactual[key])

\* C10: computeFeatureChanges(a, a) is empty; the keys of
\* computeFeatureChanges(a, b) are exactly the keys of either record whose
\* values are unequal, a key missing on one side counting as unequal; each
\* entry carries the factual and the counterfactual value.
C10_FeatureChanges ==
  pc = "diffed" =>
    /\ (factual = counterfactual) => DOMAIN changes = {}
    /\ DOMAIN changes
         = {key \in (DOMAIN factual) \cup (DOMAIN counterfactual) : DiffersAt(key)}
    /\ \A key \in DOMAIN changes :
         /\ key \in DOMAIN factual => changes[key]["factual"] = factual[key]
         /\ key \in DOMAIN counterfactual =>
              changes[key]["counterfactual"] = counterfactual[key]

\* one key exists only in the counterfactual, another holds 1 and 1.0
C10_Witness ==
  /\ pc = "diffed"
  /\ \E key \in (DOMAIN counterfactual) \ (DOMAIN factual) : key \in DOMAIN changes
  /\ \E key \in (DOMAIN factual) \cap (DOMAIN counterfactual) :
       /\ factual[key] = PyInt(1)
       /\ counterfactual[key] = PyFloat(1, 0)
       /\ key \notin DOMAIN changes

\* C11: a key whose two values are numbers gets an entry exactly when the
\* numbers differ by more than the tolerance 1e-9, the rule _dicts_equal
\* applies: 1.0000000001 against 1.0, or 1 against 1.0, gets none.
C11_ToleranceInChanges ==
  pc = "diffed" =>
    \A key \in (DOMAIN factual) \cap (DOMAIN counterfactual) :
      (IsNumber(factual[key]) /\ IsNumber(counterfactual[key])) =>
        (key \in DOMAIN changes
           <=> ~values_match(factual[key], counterfactual[key]))

(***************************************************************************)
(* Properties of _dicts_equal.                                             *)
(***************************************************************************)
\* the equality rule of the Diff Engine: numbers within the tolerance,
\* anything else the same value of the same type
RuleEqual(x, y) ==
  IF x.t \in {"int", "float"} /\ y.t \in {"int", "float"}
  THEN x.v = y.v /\ Abs(TenthNano(x) - TenthNano(y)) < 10
  ELSE x.t = y.t /\ x.v = y.v

EntrySet(d) == {d[i] : i \in 1..Len(d)}

\* the records holding the entries of d in some order
Reorderings(d) == {p \in OrderedRecords : EntrySet(p) = EntrySet(d)}

\* C12: _dicts_equal is reflexive, symmetric and independent of the order of
\* the entries of either record; it is true exactly when the key sets are
\* the same and every pair of values is equal under the rule.
C12_RecordsEqual ==
  pc = "compared" =>
    /\ _dicts_equal(dict1, dict1)
    /\ equal = _dicts_equal(dict2, dict1)
    /\ \A p1 \in Reorderings(dict1), p2 \in Reorderings(dict2) :
         _dicts_equal(p1, p2) = equal
    /\ equal <=> /\ keys(dict1) = keys(dict2)
                 /\ \A k \in keys(dict1) : RuleEqual(Item(dict1, k), Item(dict2, k))

\* two records with the same keys in opposite order, one holding 1 where the
\* other holds 1.0, were found equal
C12_Witness ==
  /\ pc = "compared"
  /\ equal
  /\ Len(dict1) = 2
  /\ dict1[1].key = dict2[2].key
  /\ dict1[1].val = PyInt(1)
  /\ dict2[2].val = PyFloat(1, 0)

(***************************************************************************)
(* Properties of the event stream and of the refinement batch.             *)
(***************************************************************************)
StreamRequest == request.endpoint = "stream"

IsTerminalEvent(e) == e.type \in {"complete", "error"}

IsDraftUpdate(e) == e.type = "draft_update"

DraftUpdates == SelectSeq(events, IsDraftUpdate)

LastEvent == events[Len(events)]

\* C13: the draft_update events carry the indices 0, 1, 2, ... in this order,
\* one per draft, each sent after its draft has ended and before the next
\* draft starts, all of them before the terminal event; when the stream has
\* ended there are exactly as many as the batch has drafts.
C13_DraftUpdateOrder ==
  SelfRefinementRequest =>
    /\ \A k \in 1..Len(DraftUpdates) :
         /\ DraftUpdates[k].index = k - 1
         /\ k <= Len(drafts)
         /\ Terminal(drafts[k])
         /\ DraftUpdates[k].status = drafts[k].status
    /\ \A k \in 2..Len(drafts) :
         drafts[k].status # "pending" => Len(DraftUpdates) >= k - 1
    /\ \A k \in 1..Len(events) :
         IsDraftUpdate(events[k]) =>
           \A j \in 1..k : ~IsTerminalEvent(events[j])
    /\ pc = "closed" => Len(DraftUpdates) = Len(drafts)

\* a batch with failed and successful drafts ended with the complete event
C13_Witness ==
  /\ pc = "closed"
  /\ SelfRefinementRequest
  /\ Len(DraftUpdates) = DefaultNumNarratives
  /\ DraftUpdates[1].status = "failed"
  /\ DraftUpdates[2].status = "success"
  /\ LastEvent.type = "complete"

\* C14: a streaming request of either generation type sends at most one
\* terminal event (complete or error), nothing after it, and has sent exactly
\* one when the stream ends, wherever the pipeline failed.
C14_OneTerminalEvent ==
  StreamRequest =>
    /\ Cardinality({k \in 1..Len(events) : IsTerminalEvent(events[k])}) <= 1
    /\ \A k \in 1..Len(events) : IsTerminalEvent(events[k]) => k = Len(events)
    /\ pc = "closed" => (Len(events) >= 1 /\ IsTerminalEvent(LastEvent))

\* a one-shot stream whose generation succeeded failed when the event was
\* serialised, and ended with the error event alone
C14_Witness ==
  /\ pc = "closed"
  /\ StreamRequest
  /\ ~SelfRefinementRequest
  /\ Len(calls) >= 1
  /\ calls[Len(calls)].kind = "text"
  /\ Len(events) = 1
  /\ LastEvent.type = "error"

\* C15: a draft whose generation call raised, or whose text yields no
\* extracted object, is failed, any other is success, and the batch goes on:
\* when the stream of a started batch ends every draft has had its generation
\* call and is success or failed.
C15_FailedDraftContinues ==
  SelfRefinementRequest =>
    /\ Len(calls) <= Len(drafts)
    /\ \A k \in 1..Len(calls) :
         drafts[k].status =
           IF calls[k].kind = "raise"
              \/ _parse_json_response(calls[k].text).kind = "none"
           THEN "failed" ELSE "success"
    /\ (pc = "closed" /\ drafts # <<>>) =>
         /\ Len(calls) = Len(drafts)
         /\ \A i \in 1..Len(drafts) : Terminal(drafts[i])

\* the first draft's call raised, the second returned text without JSON, and
\* the last draft still succeeded
C15_Witness ==
  /\ pc = "closed"
  /\ SelfRefinementRequest
  /\ Len(calls) = DefaultNumNarratives
  /\ calls[1].kind = "raise"
  /\ calls[2].kind = "text"
  /\ drafts[2].status = "failed"
  /\ drafts[Len(drafts)].status = "success"

\* C16: the complete event of a self-refinement request lists exactly
\* num_narratives drafts, with the indices 0..num_narratives-1.
C16_RequestedDraftCount ==
  (pc = "closed" /\ SelfRefinementRequest /\ LastEvent.type = "complete") =>
    /\ Len(LastEvent.drafts) = request.num_narratives
    /\ \A i \in 1..Len(LastEvent.drafts) : LastEvent.drafts[i].index = i - 1

\* C17: the score is computed at most once and only when every draft has
\* ended; it is None before that, and None when fewer than 2 drafts succeeded.
C17_NssNoneBelowTwo ==
  SelfRefinementRequest =>
    /\ nss_computed <= 1
    /\ nss_computed = 0 => nss = NoNss
    /\ nss_computed = 1 =>
         /\ drafts # <<>>
         /\ \A i \in 1..Len(drafts) : Terminal(drafts[i])
         /\ Cardinality(Successful(drafts)) < 2 => nss.none
    /\ (pc = "closed" /\ drafts # <<>>) => nss_computed = 1
    /\ (pc = "closed" /\ LastEvent.type = "complete") => LastEvent.nss = nss

\* a batch with a single successful draft was completed without a score
C17_Witness ==
  /\ pc = "closed"
  /\ SelfRefinementRequest
  /\ LastEvent.type = "complete"
  /\ Cardinality(Successful(drafts)) = 1
  /\ nss_computed = 1
  /\ nss.none

IsSuccess(d) == d.status = "success"

SameRankings ==
  /\ \A i, j \in Successful(drafts) : drafts[i].ranking = drafts[j].ranking
  /\ \A i \in Successful(drafts) : DOMAIN ranking_of(drafts[i].ranking) # {}

\* C18: the score is the one the successful drafts alone would get; with at
\* least 2 successful drafts that all give every feature the same rank label
\* it is 1.0, however many drafts failed.
C18_NssOverSuccessful ==
  (pc = "closed" /\ SelfRefinementRequest /\ drafts # <<>>) =>
    /\ nss = narrative_stability_score(SelectSeq(drafts, IsSuccess))
    /\ (Cardinality(Successful(drafts)) >= 2 /\ SameRankings) =>
         /\ ~nss.none
         /\ nss.total > 0
         /\ nss.agree = nss.total

\* two drafts succeeded with the same ranking, three failed, the score is 1.0
C18_Witness ==
  /\ pc = "closed"
  /\ SelfRefinementRequest
  /\ Cardinality(Successful(drafts)) = 2
  /\ Len(drafts) - Cardinality(Successful(drafts)) = 3
  /\ SameRankings
  /\ LastEvent.type = "complete"
  /\ LastEvent.nss.agree = LastEvent.nss.total
  /\ LastEvent.nss.total > 0

(***************************************************************************)
(* Properties of the responses.                                            *)
(***************************************************************************)
StatusValues == {"success", "demo", "error"}

\* the object a client receives last: the response body or the terminal event
Answer == IF StreamRequest THEN LastEvent ELSE response.body

\* C19: every response, failure responses and terminal events included,
\* carries a status field whose value is success, demo or error.
C19_StatusDiscriminator ==
  pc = "closed" =>
    /\ "status" \in DOMAIN Answer
    /\ Answer.status \in StatusValues

\* C20: the synthetic demo result is given only where no generation
\* capability is configured, and with the status demo; a response with the
\* status success is built from a text the generation collaborator returned.
C20_DemoOnlyWithoutCapability ==
  (pc = "closed" /\ "status" \in DOMAIN Answer) =>
    /\ Answer.explanation = DemoNarrative =>
         (~VLLM_AVAILABLE /\ Answer.status = "demo")
    /\ Answer.status = "success" =>
         \E k \in 1..Len(calls) :
           /\ calls[k].kind = "text"
           /\ \/ Answer.explanation = calls[k].text
              \/ /\ _parse_json_response(calls[k].text).kind = "dict"
                 /\ "explanation"
                      \in DOMAIN _parse_json_response(calls[k].text).val
                 /\ Answer.explanation
                      = <<_parse_json_response(calls[k].text).val["explanation"]>>

(***************************************************************************)
(* Properties of _extract_target_change.                                   *)
(***************************************************************************)
\* the keys both records hold with differing values
DifferingKeys ==
  {k \in keys(factual) \cap keys(counterfactual) :
     ~PyEq(Item(factual, k), Item(counterfactual, k))}

\* the positions in the two-pass order (exact names, then lower-cased names)
\* of the candidates a differing key of both records answers to
CandidatePositions ==
  {i \in 1..Len(target_names) : target_names[i] \in DifferingKeys}
    \cup {Len(target_names) + i : i \in {j \in 1..Len(target_names) :
            \E k \in DifferingKeys : lower(k) = lower(target_names[j])}}

\* the keys that answer to the candidate at a position of the two-pass order
KeysAt(p) ==
  IF p <= Len(target_names) THEN {target_names[p]} \cap DifferingKeys
  ELSE {k \in DifferingKeys :
          lower(k) = lower(target_names[p - Len(target_names)])}

\* C25: the result names a key of the first candidate, exact names before
\* lower-cased names, that both records hold with differing values, and
\* carries the two values of that key; it is empty only when no candidate is
\* held by both records with differing values.
C25_FirstDifferingCandidate ==
  pc = "extracted" =>
    IF CandidatePositions = {} THEN ground_truth_target = EmptyDict
    ELSE /\ ground_truth_target # EmptyDict
         /\ ground_truth_target.variable.v \in KeysAt(Min(CandidatePositions))
         /\ ground_truth_target.factual
              = Item(factual, ground_truth_target.variable.v)
         /\ ground_truth_target.counterfactual
              = Item(counterfactual, ground_truth_target.variable.v)

(***************************************************************************)
(* Properties of the brace scan.                                           *)
(***************************************************************************)
\* opening braces minus closing braces in text[i..k]
RECURSIVE Balance(_, _)
Balance(i, k) ==
  IF k < i THEN 0
  ELSE Balance(i, k - 1)
         + (IF text[k] = "{" THEN 1 ELSE IF text[k] = "}" THEN 0 - 1 ELSE 0)

\* the brace at j closes the brace at i
Matched(i, j) ==
  /\ i < j
  /\ text[i] = "{"
  /\ text[j] = "}"
  /\ Balance(i, j) = 0
  /\ \A k \in i..(j - 1) : Balance(i, k) > 0

\* the balanced spans that lie in no other balanced span
MaximalBalancedSpans ==
  {sp \in [start : 1..Len(text), end : 1..Len(text)] :
     /\ Matched(sp.start, sp.end)
     /\ ~\E i \in 1..(sp.start - 1), j \in (sp.end + 1)..Len(text) :
           Matched(i, j)}

ScanSpans ==
  {BraceScan(text, 1, 0, 0)[n] : n \in 1..Len(BraceScan(text, 1, 0, 0))}

\* C24: the candidates of the brace scan are exactly the maximal balanced
\* spans of the text, also when an unclosed or a stray brace occurs elsewhere
\* in the text.
C24_MaximalBalancedSpans ==
  pc = "parsed" => ScanSpans = MaximalBalancedSpans

(***************************************************************************)
(* Properties of one-shot generation.                                      *)
(***************************************************************************)
OneShotRequest == request # NoRequest /\ ~SelfRefinementRequest

LastCall == calls[Len(calls)]

\* the generation step ended with a text in which the extractor finds nothing
UnparsedGeneration ==
  /\ calls # <<>>
  /\ LastCall.kind = "text"
  /\ _parse_json_response(LastCall.text).kind = "none"

\* C21: a one-shot request whose generation returned a text without an
\* extractable object is answered with a result, not an error: the raw text
\* as explanation, no parsed_json, and the metrics json_parsing_success =
\* false, pff = false, tf = false, avg_ff = none.
C21_ExtractionFailureRecovered ==
  (pc = "closed" /\ OneShotRequest /\ UnparsedGeneration) =>
    /\ StreamRequest => LastEvent.type = "complete"
    /\ ~StreamRequest => response.status_code = 200
    /\ Answer.status = "success"
    /\ Answer.parsed_json = None
    /\ Answer.explanation = LastCall.text
    /\ Answer.metrics = NoMetrics

\* the second attempt of the local model returned the bare text, the first
\* had raised, and the records of the request differ
C21_Witness ==
  /\ pc = "closed"
  /\ OneShotRequest
  /\ UnparsedGeneration
  /\ Len(calls) = max_retries
  /\ calls[1].kind = "raise"
  /\ request.factual # request.counterfactual
  /\ response.status_code = 200
  /\ response.body.metrics = NoMetrics

\* the generation step failed: the model could not be loaded, or the last
\* call of the collaborator raised
FailedGeneration ==
  /\ request.model # "demo"
  /\ calls = <<>> \/ LastCall.kind = "raise"

\* C22: a one-shot request whose generation failed ends as a failure that
\* carries a message and no result: the failure response of the explain
\* endpoint, or a single error event and no complete event in the stream.
C22_GenerationFailureSurfaced ==
  (pc = "closed" /\ OneShotRequest /\ FailedGeneration) =>
    IF StreamRequest
    THEN /\ Len(events) = 1
         /\ events[1].type = "error"
         /\ DOMAIN events[1] = {"type", "message"}
         /\ events[1].message # ""
    ELSE /\ response.status_code = 500
         /\ DOMAIN response.body = {"detail"}
         /\ response.body.detail # ""

\* the local model returned a text on its first attempt and raised on the
\* last one: the stream holds the error event alone
C22_Witness ==
  /\ pc = "closed"
  /\ OneShotRequest
  /\ StreamRequest
  /\ Len(calls) = max_retries
  /\ calls[1].kind = "text"
  /\ LastCall.kind = "raise"
  /\ Len(events) = 1
  /\ events[1].type = "error"

\* the explanation of the answer is the "explanation" member of the object
\* extracted from the generated text
ExplanationExtracted ==
  /\ Answer.parsed_json.kind = "dict"
  /\ "explanation" \in DOMAIN Answer.parsed_json.val
  /\ Answer.explanation = <<Answer.parsed_json.val["explanation"]>>

\* C23: a one-shot response carries explanation_extraction_warning, true when
\* its explanation was not taken from the "explanation" member of the
\* extracted object and false when it was.
C23_ExtractionWarning ==
  (pc = "closed" /\ OneShotRequest /\ "status" \in DOMAIN Answer
     /\ Answer.status = "success") =>
    /\ "explanation_extraction_warning" \in DOMAIN Answer
    /\ Answer.explanation_extraction_warning = ~ExplanationExtracted

(***************************************************************************)
(* Properties of the retry loop of _generate_with_vllm.                    *)
(***************************************************************************)
\* a one-shot request served by the local model
VllmRequest ==
  /\ OneShotRequest
  /\ request.model # "demo"
  /\ ~_is_gemini_model(request.model)

Parsed(call) ==
  call.kind = "text" /\ _parse_json_response(call.text).kind # "none"

\* the request failed with the generation error
GenerationErrorAnswer ==
  IF StreamRequest
  THEN LastEvent.type = "error"
       /\ LastEvent.message = "Error generating explanation"
  ELSE response.status_code = 500

\* C26: the loop calls the engine at most max_retries times, never again
\* after an attempt whose text was parsed, always again after an attempt that
\* raised or was not parsed while attempts remain, and lets a generation
\* error out only when it is the one of the last attempt.
C26_BoundedRetry ==
  (pc = "closed" /\ VllmRequest /\ calls # <<>>) =>
    /\ Len(calls) <= max_retries
    /\ \A k \in 1..(Len(calls) - 1) : ~Parsed(calls[k])
    /\ Len(calls) < max_retries => Parsed(LastCall)
    /\ GenerationErrorAnswer <=>
         (Len(calls) = max_retries /\ LastCall.kind = "raise")

\* the first attempt raised, the loop went on, and the second was parsed
C26_Witness ==
  /\ pc = "closed"
  /\ VllmRequest
  /\ VLLM_AVAILABLE
  /\ Len(calls) = max_retries
  /\ calls[1].kind = "raise"
  /\ Parsed(LastCall)
  /\ ~StreamRequest
  /\ response.status_code = 200

\* C27: the text and the structure the loop returns come from the same
\* attempt, the last one made: parsed_json is the extractor's result on
\* raw_output, and it is None only if no attempt's text could be parsed.
C27_TextAndStructureAgree ==
  (pc = "closed" /\ VllmRequest /\ "status" \in DOMAIN Answer
     /\ Answer.status = "success") =>
    /\ Answer.raw_output = LastCall.text
    /\ Answer.parsed_json = _parse_json_response(Answer.raw_output)
    /\ Answer.parsed_json = None =>
         \A k \in 1..Len(calls) : ~Parsed(calls[k])

\* the first attempt returned a text without JSON, the second a parsed one
C27_Witness ==
  /\ pc = "closed"
  /\ VllmRequest
  /\ Len(calls) = max_retries
  /\ calls[1].kind = "text"
  /\ calls[1].text # LastCall.text
  /\ Parsed(LastCall)
  /\ ~StreamRequest
  /\ response.status_code = 200
  /\ response.body.raw_output = LastCall.text
  /\ response.body.parsed_json.kind = "dict"

\* C28: when a generation call of the local model has ended, by a result or
\* by an exception, every model it loaded has been unloaded exactly once; no
\* model is unloaded that was not loaded.
C28_ModelUnloaded ==
  /\ llm.unloads <= llm.loads
  /\ (pc = "closed" /\ VllmRequest) =>
       /\ llm.loads <= 1
       /\ llm.unloads = llm.loads
       /\ calls # <<>> => llm.loads = 1

\* the model was loaded, its last attempt raised, and it was unloaded
C28_Witness ==
  /\ pc = "closed"
  /\ VllmRequest
  /\ Len(calls) = max_retries
  /\ LastCall.kind = "raise"
  /\ llm = [loads |-> 1, unloads |-> 1]
  /\ GenerationErrorAnswer

(***************************************************************************)
(* Properties of the drafts of a refinement batch.                         *)
(***************************************************************************)
Loading == {i \in 1..Len(drafts) : drafts[i].status = "loading"}

\* C29: at most one generation call of a request is in flight: at most one
\* draft is generating, a draft starts only when the draft before it has
\* ended, and every call made so far belongs to a draft that has ended.
C29_OneCallInFlight ==
  SelfRefinementRequest =>
    /\ Cardinality(Loading) <= 1
    /\ \A i \in 2..Len(drafts) :
         drafts[i].status # "pending" => Terminal(drafts[i - 1])
    /\ Len(calls)
         = Cardinality({i \in 1..Len(drafts) : Terminal(drafts[i])})

\* the third draft is generating: the two before it have ended, with their
\* calls, and the two after it have not started
C29_Witness ==
  /\ SelfRefinementRequest
  /\ pc = "loading"
  /\ Len(drafts) = DefaultNumNarratives
  /\ Loading = {3}
  /\ Len(calls) = 2
  /\ drafts[4].status = "pending"

StatusSteps ==
  { <<"pending", "loading">>, <<"loading", "success">>,
    <<"loading", "failed">> }

\* C30: a draft starts pending and its status only moves pending -> loading
\* -> success or failed: it never reaches success or failed from pending,
\* never goes back, never changes once it is success or failed, and no draft
\* disappears; at most one draft is loading after any step.
C30_DraftLifecycle ==
  [][ /\ Len(drafts') >= Len(drafts)
      /\ \A i \in 1..Len(drafts') :
           IF i <= Len(drafts)
           THEN \/ drafts'[i].status = drafts[i].status
                \/ <<drafts[i].status, drafts'[i].status>> \in StatusSteps
           ELSE drafts'[i].status = "pending"
      /\ Cardinality({i \in 1..Len(drafts') :
                        drafts'[i].status = "loading"}) <= 1 ]_vars

\* a batch has ended whose drafts went through loading to both outcomes
C30_Witness ==
  /\ SelfRefinementRequest
  /\ pc = "closed"
  /\ Len(drafts) = DefaultNumNarratives
  /\ \A i \in 1..Len(drafts) : Terminal(drafts[i])
  /\ drafts[1].status = "success"
  /\ drafts[Len(drafts)].status = "failed"

====
